---- MODULE Spec2Model ----
(***************************************************************************)
(* sam-invoice: the entity repositories (models/base_crud.py,              *)
(* crud_product.py, crud_article.py, crud_customer.py) and the debounced,  *)
(* asynchronous search pipeline built on them (ui/base_widgets.py,         *)
(* ui/articles_view.py, app.py).                                           *)
(*                                                                         *)
(* Text is a sequence of one-character strings, so that trimming, case     *)
(* folding, LIKE matching and ordering are computed character by           *)
(* character.  None / SQL NULL is the one-element sequence <<"None">>.     *)
(* Optional numbers are sets: {} is None, {n} is the number n.             *)
(***************************************************************************)
EXTENDS Integers, Sequences, FiniteSets, TLC

VARIABLES
    edit,        \* the detail widget's edit mode and what it was entered on
    sessions,    \* store sessions that finished calls opened and did not close
    entity,      \* which repository / view the behaviour exercises
    tie,         \* how the store orders rows whose ORDER BY keys are equal
    store,       \* the table: a function from the ids present to their rows
    ret,         \* repository run: the last call and what it returned
    search_box,  \* text of the view's QLineEdit
    timer,       \* TRUE while the single-shot _search_timer is running
    requests,    \* search_requested emissions queued for the worker thread
    results,     \* results_ready emissions queued for the interactive thread
    errors,      \* what the worker has emitted on its error signal
    list,        \* items of _results_list, in display order
    current_row, \* current row of _results_list (-1: none)
    detail,      \* the detail widget
    count_label, \* the numbers written to _results_count_label
    pending_load,\* TRUE while the view's first reload_items is still scheduled
    hist         \* history of the pipeline, read only by the properties

vars == <<edit, sessions, entity, tie, store, ret, search_box, timer, requests, results,
          errors, list, current_row, detail, count_label, pending_load, hist>>

(***************************************************************************)
(* Bounds of the model.                                                    *)
(***************************************************************************)
MaxRows == 2      \* rows a repository run creates
MaxDispatch == 2  \* queries a pipeline run dispatches
MaxBurst == 3     \* inputs counted in one burst; longer bursts count as this
MaxFieldLen == 3  \* characters a form field holds in a validation run
MaxOpen == 1      \* sessions a run may leave open

(***************************************************************************)
(* Text.                                                                   *)
(***************************************************************************)
NULL == <<"None">>

Chars == {" ", "%", "1", "2", "A", "B", "_", "a", "b"}

\* Code point of a character: what Python and SQLite's BINARY collation compare.
CharCode(c) ==
    CASE c = " " -> 32 [] c = "%" -> 37 [] c = "1" -> 49 [] c = "2" -> 50
      [] c = "A" -> 65 [] c = "B" -> 66 [] c = "_" -> 95
      [] c = "a" -> 97 [] c = "b" -> 98

LowerChar(c) == CASE c = "A" -> "a" [] c = "B" -> "b" [] OTHER -> c

\* str.lower() and SQL lower().
Lower(s) == [i \in 1..Len(s) |-> LowerChar(s[i])]

IsSpace(c) == c = " "

RECURSIVE LStrip(_)
LStrip(s) == IF s # <<>> /\ IsSpace(Head(s)) THEN LStrip(Tail(s)) ELSE s

RECURSIVE RStrip(_)
RStrip(s) ==
    IF s # <<>> /\ IsSpace(s[Len(s)]) THEN RStrip(SubSeq(s, 1, Len(s) - 1)) ELSE s

\* str.strip()
Strip_leading(s) == LStrip(s)

Strip(s) == RStrip(LStrip(s))

\* (x or "")
OrEmpty(s) == IF s = NULL THEN <<>> ELSE s

\* s < t for two texts, code point by code point.
RECURSIVE StrLess(_, _)
StrLess(s, t) ==
    IF t = <<>> THEN FALSE
    ELSE IF s = <<>> THEN TRUE
    ELSE IF CharCode(Head(s)) # CharCode(Head(t))
         THEN CharCode(Head(s)) < CharCode(Head(t))
         ELSE StrLess(Tail(s), Tail(t))

IsDigit(c) == c \in {"1", "2"}
DigitValue(c) == CASE c = "1" -> 1 [] c = "2" -> 2

\* Whether int(q) succeeds: digits, single underscores allowed between digits.
RECURSIVE IntBody(_)
IntBody(q) ==
    IF Len(q) = 1 THEN IsDigit(q[1])
    ELSE /\ IsDigit(q[1]) \/ (q[1] = "_" /\ IsDigit(q[2]))
         /\ IntBody(Tail(q))

ParsesAsInt(q) == q # <<>> /\ IsDigit(q[1]) /\ IntBody(q)

\* int(q) for a q that parses.
RECURSIVE IntOf(_, _)
IntOf(q, acc) ==
    IF q = <<>> THEN acc
    ELSE IF Head(q) = "_" THEN IntOf(Tail(q), acc)
    ELSE IntOf(Tail(q), 10 * acc + DigitValue(Head(q)))

(***************************************************************************)
(* The store's LIKE: % matches any run of characters, _ any one character. *)
(***************************************************************************)
RECURSIVE Like(_, _)
Like(s, p) ==
    IF p = <<>> THEN s = <<>>
    ELSE IF Head(p) = "%"
         THEN Like(s, Tail(p)) \/ (s # <<>> /\ Like(Tail(s), p))
         ELSE /\ s # <<>>
              /\ Head(p) = "_" \/ Head(p) = Head(s)
              /\ Like(Tail(s), Tail(p))

\* column.ilike(pattern): lower(column) LIKE lower(pattern); NULL matches nothing.
ILike(col, pat) == col # NULL /\ Like(Lower(col), Lower(pat))

(***************************************************************************)
(* Values the runs draw from.                                              *)
(***************************************************************************)
Entities == {"Product", "Article", "Customer"}

\* Product / Article columns.
RefValues == {<<"a">>, <<"A">>, <<"B">>, <<"1", "%">>}
NameValues == {NULL, <<"b", "a">>}

\* Customer columns; the short and the missing ones are what the store rejects.
CustomerNames ==
    {<<"B", "a", "b">>, <<"b", "a", "b">>, <<"a", "1", "%">>, <<"a", "b">>, NULL}
CustomerAddresses == {<<"1", " ", "a">>, <<"a">>}
CustomerEmails == {NULL, <<"b", "_", "a">>}

RECURSIVE SeqsUpTo(_, _)
SeqsUpTo(S, n) ==
    IF n = 0 THEN {<<>>}
    ELSE LET shorter == SeqsUpTo(S, n - 1)
         IN  shorter \cup {Append(s, c) : s \in shorter, c \in S}

\* What a caller may pass as query: None and every text of up to two characters.
QueryChars == {" ", "%", "1", "B", "_", "a"}
Queries == {NULL} \cup SeqsUpTo(QueryChars, 2)

\* What a caller may pass as limit: None, or a number.
Limits == {{}, {0}, {1}, {2}}

(***************************************************************************)
(* The store: ORDER BY, LIMIT, primary keys.                               *)
(***************************************************************************)
Rows == {store[i] : i \in DOMAIN store}

Max(S) == CHOOSE m \in S : \A o \in S : o <= m

Min2(a, b) == IF a < b THEN a ELSE b

\* A key generator that hands out the largest id in use.
NextId_largest == IF DOMAIN store = {} THEN 1 ELSE Max(DOMAIN store)

\* The id a new row gets: SQLite's INTEGER PRIMARY KEY, one past the largest.
NextId == IF DOMAIN store = {} THEN 1 ELSE Max(DOMAIN store) + 1

\* The value an ORDER BY expression has on a row.
SortValue(r, sort) == IF sort.fn = "lower" THEN Lower(r[sort.col]) ELSE r[sort.col]

\* An order among equal keys that changes from one execution to the next.
TieOrder_per_call == IF ret.op = "none" THEN "asc" ELSE "desc"

\* The order the store gives rows whose ORDER BY keys are equal: not written
\* in the statement, the same for every execution on the same database.
TieOrder == tie

\* Row a comes before row b under ORDER BY sort; equal keys fall back on
\* TieOrder.
Before(a, b, sort) ==
    \/ StrLess(SortValue(a, sort), SortValue(b, sort))
    \/ /\ SortValue(a, sort) = SortValue(b, sort)
       /\ IF TieOrder = "asc" THEN a.id < b.id ELSE a.id > b.id

\* query.order_by(sort).all()
RECURSIVE order_by(_, _)
order_by(S, sort) ==
    IF S = {} THEN <<>>
    ELSE LET first == CHOOSE r \in S : \A o \in S \ {r} : Before(r, o, sort)
         IN  <<first>> \o order_by(S \ {first}, sort)

Take(rows, k) == SubSeq(rows, 1, Min2(k, Len(rows)))

\* stmt.limit(limit).all() if limit else stmt.all()
limit_all(rows, limit) ==
    IF limit # {} /\ limit # {0} THEN Take(rows, Max(limit)) ELSE rows

\* One filter expression holds on a row.
FilterHolds(r, f) ==
    IF f.op = "ilike" THEN ILike(r[f.col], f.arg) ELSE r.id = f.arg

\* or_(*filters)
or_(r, filters) == \E i \in 1..Len(filters) : FilterHolds(r, filters[i])

\* f"%{q}%"
Pattern(q) == <<"%">> \o q \o <<"%">>

ilike(col, q) == [col |-> col, op |-> "ilike", arg |-> Pattern(q)]

id_equals(n) == [col |-> "id", op |-> "eq", arg |-> n]

(***************************************************************************)
(* BaseCRUD over Product (models/base_crud.py, models/crud_product.py).    *)
(***************************************************************************)
\* The sort field without func.lower().
_get_sort_field_raw == [fn |-> "raw", col |-> "reference"]

_get_sort_field == [fn |-> "lower", col |-> "reference"]

\* The filters with the name column left out.
_get_search_filters_reference_only(query) == <<ilike("reference", query)>>

_get_search_filters(query) == <<ilike("reference", query), ilike("name", query)>>

get_all(rows) == order_by(rows, _get_sort_field)

\* A lookup without its id filter: the first row of the table.
get_by_id_unfiltered(entity_id) ==
    IF DOMAIN store = {} THEN <<>>
    ELSE <<store[CHOOSE i \in DOMAIN store : \A j \in DOMAIN store : i <= j]>>

\* <<>> stands for None, <<row>> for the entity found.
get_by_id(entity_id) == IF entity_id \in DOMAIN store THEN <<store[entity_id]>> ELSE <<>>

\* BaseCRUD.search with a query that is not trimmed.
search_unstripped(rows, query, limit) ==
    LET q == OrEmpty(query)
        filters == IF ParsesAsInt(q)
                   THEN Append(_get_search_filters(q), id_equals(IntOf(q, 0)))
                   ELSE _get_search_filters(q)
    IN  IF q = <<>>
        THEN limit_all(order_by(rows, _get_sort_field), limit)
        ELSE limit_all(order_by({r \in rows : or_(r, filters)}, _get_sort_field), limit)

search(rows, query, limit) ==
    LET q == Strip(OrEmpty(query))
        filters == IF ParsesAsInt(q)
                   THEN Append(_get_search_filters(q), id_equals(IntOf(q, 0)))
                   ELSE _get_search_filters(q)
    IN  IF q = <<>>
        THEN limit_all(order_by(rows, _get_sort_field), limit)
        ELSE limit_all(order_by({r \in rows : or_(r, filters)}, _get_sort_field), limit)

(***************************************************************************)
(* models/crud_article.py                                                  *)
(***************************************************************************)
get_articles(rows) == order_by(rows, [fn |-> "lower", col |-> "reference"])

search_articles(rows, query, limit) ==
    LET q == Strip(OrEmpty(query))
        text == <<ilike("reference", q), ilike("name", q)>>
        filters == IF ParsesAsInt(q) THEN Append(text, id_equals(IntOf(q, 0))) ELSE text
        sort == [fn |-> "lower", col |-> "reference"]
    IN  IF q = <<>>
        THEN limit_all(order_by(rows, sort), limit)
        ELSE limit_all(order_by({r \in rows : or_(r, filters)}, sort), limit)

(***************************************************************************)
(* models/crud_customer.py                                                 *)
(***************************************************************************)
get_customers(rows) == order_by(rows, [fn |-> "lower", col |-> "name"])

search_customers(rows, query) ==
    LET q == Strip(OrEmpty(query))
        text == <<ilike("name", q), ilike("email", q), ilike("address", q)>>
        filters == IF ParsesAsInt(q) THEN <<id_equals(IntOf(q, 0))>> \o text ELSE text
        sort == [fn |-> "lower", col |-> "name"]
    IN  IF q = <<>>
        THEN order_by(rows, sort)
        ELSE order_by({r \in rows : or_(r, filters)}, sort)

\* The customers table's NOT NULL and CHECK (length(...) >= 3) constraints.
CustomerConstraints(name, address) ==
    /\ name # NULL /\ address # NULL
    /\ Len(name) >= 3 /\ Len(address) >= 3

\* The articles table's NOT NULL constraint on reference (models/article.py).
ArticleConstraints(reference) == reference # NULL

(***************************************************************************)
(* Rows.                                                                   *)
(***************************************************************************)
PriceValues == {{}}
StockValues == {{}}
SoldValues == {{}}

ProductRow(id, reference, name, price, stock, sold) ==
    [id |-> id, reference |-> reference, name |-> name,
     price |-> price, stock |-> stock, sold |-> sold]

CustomerRow(id, name, address, email) ==
    [id |-> id, name |-> name, address |-> address, email |-> email]

\* store with one more row / without one row.
Inserted(row) == [i \in DOMAIN store \cup {row.id} |-> IF i = row.id THEN row ELSE store[i]]

\* A delete whose commit is missing.
Removed_uncommitted(id) == store

Removed(id) == [i \in DOMAIN store \ {id} |-> store[i]]

(***************************************************************************)
(* What one call returned.                                                 *)
(***************************************************************************)
Returned(op, query, limit, rows, raised) ==
    [op |-> op, query |-> query, limit |-> limit, rows |-> rows, raised |-> raised,
     again |-> <<>>, args |-> <<>>, before |-> <<>>]

\* What a create, update, delete or get_by_id call returned, with the
\* arguments it was given and the store it found.
Wrote(op, args, rows, raised) ==
    [Returned(op, NULL, {}, rows, raised) EXCEPT !.args = args, !.before = store]

NoCall == Returned("none", NULL, {}, <<>>, FALSE)

\* get_all / get_articles / get_customers of the repository the run exercises.
RepoGetAll ==
    CASE entity = "Product" -> get_all(Rows)
      [] entity = "Article" -> get_articles(Rows)
      [] entity = "Customer" -> get_customers(Rows)

\* search / search_articles / search_customers of that repository.
RepoSearch(query, limit) ==
    CASE entity = "Product" -> search(Rows, query, limit)
      [] entity = "Article" -> search_articles(Rows, query, limit)
      [] entity = "Customer" -> search_customers(Rows, query)

(***************************************************************************)
(* The interactive side before anything has happened.                      *)
(***************************************************************************)
NoDetail == [current_id |-> {}, shown |-> <<>>, delete_enabled |-> FALSE]

NoLabel == [shown |-> -1, total |-> -1]

\* View mode; in edit mode entered is the id on display when the mode was
\* entered and fields the article the edit fields were filled from.
NoEdit == [editing |-> FALSE, entered |-> {}, fields |-> <<>>]

NoHist == [op |-> "init", dispatched |-> <<>>, before |-> 0, burst |-> 0,
           fired |-> 0, cancelled |-> FALSE, shows |-> -1, delivered |-> {},
           failed |-> FALSE]

UIUntouched ==
    UNCHANGED <<search_box, timer, requests, results, errors, list,
                current_row, detail, count_label, pending_load, hist>>

(***************************************************************************)
(* The repository run: calls made one at a time by a synchronous caller.   *)
(***************************************************************************)
InitRepo ==
    /\ edit = NoEdit
    /\ sessions = 0
    /\ entity \in Entities
    /\ tie \in {"asc", "desc"}
    /\ store = <<>>
    /\ ret = NoCall
    /\ search_box = <<>>
    /\ timer = FALSE
    /\ requests = <<>>
    /\ results = <<>>
    /\ errors = <<>>
    /\ list = <<>>
    /\ current_row = -1
    /\ detail = NoDetail
    /\ count_label = NoLabel
    /\ pending_load = FALSE
    /\ hist = NoHist

\* ProductCRUD.create / create_article
CreateProduct(reference, name, price, stock, sold) ==
    /\ entity \in {"Product", "Article"}
    /\ entity = "Product" => reference # NULL
    /\ ret.op = "none"
    /\ NextId <= MaxRows
    /\ LET row == ProductRow(NextId, reference, name, price, stock, sold)
       IN  IF ArticleConstraints(reference)
           THEN /\ store' = Inserted(row)
                /\ ret' = Wrote("create", row, <<row>>, FALSE)
           ELSE /\ store' = store
                /\ ret' = Wrote("create", row, <<>>, TRUE)
    /\ UNCHANGED <<edit, sessions, entity, tie>>
    /\ UIUntouched

\* The sessions a call of crud_customer.py leaves open: session.close() is
\* its last statement before return, reached unless a statement before it
\* raised.
close_at_end(raised) == IF raised THEN 1 ELSE 0

\* create_customer
CreateCustomer(name, address, email) ==
    /\ entity = "Customer"
    /\ ret.op = "none"
    /\ NextId <= MaxRows
    /\ LET row == CustomerRow(NextId, name, address, email)
       IN  IF CustomerConstraints(name, address)
           THEN /\ store' = Inserted(row)
                /\ ret' = Wrote("create", row, <<row>>, FALSE)
           ELSE /\ sessions < MaxOpen
                /\ store' = store
                /\ ret' = Wrote("create", row, <<>>, TRUE)
    /\ sessions' = sessions + close_at_end(~CustomerConstraints(name, address))
    /\ UNCHANGED <<edit, entity, tie>>
    /\ UIUntouched

\* BaseCRUD.delete / delete_article / delete_customer
Delete(id) ==
    /\ ret.op = "none"
    /\ IF id \in DOMAIN store
       THEN /\ store' = Removed(id)
            /\ ret' = Wrote("delete", [id |-> id], <<store[id]>>, FALSE)
       ELSE /\ store' = store
            /\ ret' = Wrote("delete", [id |-> id], <<>>, FALSE)
    /\ UNCHANGED <<edit, sessions, entity, tie>>
    /\ UIUntouched

\* BaseCRUD.get_all / get_articles / get_customers
GetAll ==
    /\ ret.op = "none"
    /\ ret' = Returned("get_all", NULL, {}, RepoGetAll, FALSE)
    /\ UNCHANGED <<edit, sessions, entity, tie, store>>
    /\ UIUntouched

\* BaseCRUD.search / search_articles / search_customers
Search(query, limit) ==
    /\ ret.op = "none"
    /\ entity = "Customer" => limit = {}
    /\ ret' = Returned("search", query, limit, RepoSearch(query, limit), FALSE)
    /\ UNCHANGED <<edit, sessions, entity, tie, store>>
    /\ UIUntouched

\* The caller makes the same get_all or search call once more, on the same
\* store; `again` keeps what this second execution returns.
Repeat ==
    /\ ret.op \in {"get_all", "search"}
    /\ ret' = [ret EXCEPT !.op = IF ret.op = "search" THEN "search_twice" ELSE "get_all_twice",
                          !.again = IF ret.op = "search"
                                    THEN RepoSearch(ret.query, ret.limit)
                                    ELSE RepoGetAll]
    /\ UNCHANGED <<edit, sessions, entity, tie, store>>
    /\ UIUntouched

\* The caller is done with what the call returned.
Forget ==
    /\ ret.op # "none"
    /\ ret' = NoCall
    /\ UNCHANGED <<edit, sessions, entity, tie, store>>
    /\ UIUntouched

NextRepo ==
    \/ \E reference \in RefValues \cup {NULL}, name \in NameValues,
          price \in PriceValues, stock \in StockValues, sold \in SoldValues :
          CreateProduct(reference, name, price, stock, sold)
    \/ \E name \in CustomerNames, address \in CustomerAddresses,
          email \in CustomerEmails : CreateCustomer(name, address, email)
    \/ \E id \in 1..MaxRows : Delete(id)
    \/ GetAll
    \/ \E query \in Queries, limit \in Limits : Search(query, limit)
    \/ Repeat
    \/ Forget

SpecRepo == InitRepo /\ [][NextRepo]_vars

(***************************************************************************)
(* Writes: create, update, delete and get_by_id, called one at a time.     *)
(***************************************************************************)
\* The values the callers of the write operations pass.
CrudRefs == {NULL, <<"a">>, <<"B">>}
CrudPrices == {{}, {0}, {5}}
CrudStocks == {{}, {0}}
CrudNames == {NULL, <<>>, <<"a", "b">>, <<" ", " ", " ">>, <<"B", "a", "b">>}
CrudAddresses == {NULL, <<>>, <<"a", "b">>, <<"1", " ", "a">>, <<"a", "b", "c">>}
CrudEmails == {NULL, <<>>, <<"e">>}

\* `if name:` on an optional string: neither None nor "".
Truthy(s) == s # NULL /\ s # <<>>

\* An update that assigns every parameter, supplied or not.
Supplied_always(old, new, none) == new

\* `if x is not None: row.x = x`
Supplied(old, new, none) == IF new # none THEN new ELSE old

\* The row ProductCRUD.update / update_article leaves in the session.
update(row, reference, name, price, stock, sold) ==
    [id |-> row.id,
     reference |-> Supplied(row.reference, reference, NULL),
     name |-> Supplied(row.name, name, NULL),
     price |-> Supplied(row.price, price, {}),
     stock |-> Supplied(row.stock, stock, {}),
     sold |-> Supplied(row.sold, sold, {})]

\* The row update_customer leaves in the session.
update_customer(row, name, address, email) ==
    [id |-> row.id,
     name |-> IF Truthy(name) THEN name ELSE row.name,
     address |-> IF Truthy(address) THEN address ELSE row.address,
     email |-> IF Truthy(email) THEN email ELSE row.email]

\* A commit that writes the row although the store rejects it.
commit_unchecked(row, ok) == [store EXCEPT ![row.id] = row]

\* session.commit() of a changed row: written when the table's constraints
\* hold, else IntegrityError and nothing written.
commit(row, ok) == IF ok THEN [store EXCEPT ![row.id] = row] ELSE store

\* ProductCRUD.update / update_article
UpdateProduct(id, reference, name, price, stock, sold) ==
    /\ entity \in {"Product", "Article"}
    /\ ret.op = "none"
    /\ LET args == ProductRow(id, reference, name, price, stock, sold)
       IN  IF id \in DOMAIN store
           THEN LET row == update(store[id], reference, name, price, stock, sold)
                    ok == ArticleConstraints(row.reference)
                IN  /\ store' = commit(row, ok)
                    /\ ret' = Wrote("update", args, IF ok THEN <<row>> ELSE <<>>, ~ok)
           ELSE /\ store' = store
                /\ ret' = Wrote("update", args, <<>>, FALSE)
    /\ UNCHANGED <<edit, sessions, entity, tie>>
    /\ UIUntouched

\* update_customer
UpdateCustomer(id, name, address, email) ==
    /\ entity = "Customer"
    /\ ret.op = "none"
    /\ LET args == CustomerRow(id, name, address, email)
       IN  IF id \in DOMAIN store
           THEN LET row == update_customer(store[id], name, address, email)
                    ok == CustomerConstraints(row.name, row.address)
                IN  /\ ~ok => sessions < MaxOpen
                    /\ store' = commit(row, ok)
                    /\ ret' = Wrote("update", args, IF ok THEN <<row>> ELSE <<>>, ~ok)
                    /\ sessions' = sessions + close_at_end(~ok)
           ELSE /\ store' = store
                /\ ret' = Wrote("update", args, <<>>, FALSE)
                /\ sessions' = sessions + close_at_end(FALSE)
    /\ UNCHANGED <<edit, entity, tie>>
    /\ UIUntouched

\* BaseCRUD.get_by_id / get_article_by_id / get_customer_by_id
GetById(id) ==
    /\ ret.op = "none"
    /\ ret' = Wrote("get_by_id", [id |-> id], get_by_id(id), FALSE)
    /\ UNCHANGED <<edit, sessions, entity, tie, store>>
    /\ UIUntouched

NextCrud ==
    \/ \E reference \in CrudRefs, price \in CrudPrices, stock \in CrudStocks :
          CreateProduct(reference, NULL, price, stock, {})
    \/ \E name \in CrudNames, address \in CrudAddresses, email \in CrudEmails :
          CreateCustomer(name, address, email)
    \/ \E id \in 1..MaxRows, reference \in CrudRefs, price \in CrudPrices,
          stock \in CrudStocks : UpdateProduct(id, reference, NULL, price, stock, {})
    \/ \E id \in 1..MaxRows, name \in CrudNames, address \in CrudAddresses,
          email \in CrudEmails : UpdateCustomer(id, name, address, email)
    \/ \E id \in 1..MaxRows : Delete(id)
    \/ \E id \in 1..MaxRows : GetById(id)
    \/ Forget

SpecCrud == InitRepo /\ [][NextCrud]_vars

(***************************************************************************)
(* The search pipelines: ui/base_widgets.py with ui/articles_view.py and   *)
(* ui/article_detail.py when entity = "Article", app.py with               *)
(* ui/customer_detail.py when entity = "Customer".                         *)
(***************************************************************************)
\* max_shown in both result handlers and both reloads.
max_shown == 50

\* The limit _perform_search / _perform_live_search hand to the worker.
search_limit == 50

\* A timer that keeps firing every interval.
setSingleShot_repeating == FALSE

\* QTimer.setSingleShot(True): the timer is idle again once it has fired.
setSingleShot == TRUE

\* The texts the user leaves in the search box.
BoxTexts == {<<>>, <<" ">>, <<"a">>, <<"B", " ">>}

\* The stores the application is started on: rows created earlier, some of
\* them deleted again.
PipeIds == {1, 2}

PipeKeys == {<<"a">>, <<"B">>}

PipeCustomerNames == {<<"B", "a", "b">>, <<"a", "1", "%">>}

PipeRow(id, k) ==
    IF entity = "Customer"
    THEN CustomerRow(id, k, <<"1", " ", "a">>, NULL)
    ELSE ProductRow(id, k, NULL, {}, {}, {})

PipeStores ==
    LET keys == IF entity = "Customer" THEN PipeCustomerNames ELSE PipeKeys
    IN  UNION {{[i \in S |-> PipeRow(i, f[i])] : f \in [S -> keys]} :
               S \in SUBSET PipeIds}

\* Python's sorted(rows, key=lambda r: (getattr(r, col, "") or "").lower()):
\* a stable sort, rows with equal keys keep the order they came in.
SortKey(r, col) == Lower(OrEmpty(r[col]))

RECURSIVE sorted(_, _)
sorted(rows, col) ==
    IF rows = <<>> THEN <<>>
    ELSE LET s == sorted(SubSeq(rows, 1, Len(rows) - 1), col)
             r == rows[Len(rows)]
             n == Cardinality({i \in 1..Len(s) :
                                  ~StrLess(SortKey(r, col), SortKey(s[i], col))})
         IN  SubSeq(s, 1, n) \o <<r>> \o SubSeq(s, n + 1, Len(s))

\* A Python call with keyword arguments: TypeError when the function has no
\* parameter of that name, else the value of the body.
PyCall(params, keywords, value) ==
    IF keywords \subseteq params
    THEN [raised |-> FALSE, rows |-> value]
    ELSE [raised |-> TRUE, rows |-> <<>>]

Raised == [raised |-> TRUE, rows |-> <<>>]

\* ArticlesView._search_function; fault: the store fails during the query.
_search_function(rows, query, limit, fault) ==
    LET call == PyCall({"query", "limit"}, {"limit"},
                       search_articles(rows, query, limit))
    IN  IF fault \/ call.raised THEN Raised
        ELSE [raised |-> FALSE, rows |-> sorted(call.rows, "reference")]

\* The signals one run of the worker's slot emits, in order.
Emitted(error, results_ready) == [error |-> error, results_ready |-> results_ready]

\* base_widgets.SearchWorker.search without the result after an error.
SearchWorker_search_error_only(rows, q, limit, fault) ==
    LET call == _search_function(rows, q, limit, fault)
    IN  IF call.raised
        THEN Emitted(<<"error">>, <<>>)
        ELSE Emitted(<<>>, <<call.rows>>)

\* base_widgets.SearchWorker.search
SearchWorker_search(rows, q, limit, fault) ==
    LET call == _search_function(rows, q, limit, fault)
    IN  IF call.raised
        THEN Emitted(<<"error">>, <<<<>>>>)
        ELSE Emitted(<<>>, <<call.rows>>)

\* app.SearchWorker.search with an except branch that emits nothing.
app_SearchWorker_search_silent(rows, q, limit, fault) ==
    LET call == PyCall({"query"}, {"limit"}, search_customers(rows, q))
    IN  IF fault \/ call.raised
        THEN Emitted(<<>>, <<>>)
        ELSE Emitted(<<>>, <<sorted(call.rows, "name")>>)

\* app.SearchWorker.search: crud.search_customers(q, limit=limit), where
\* search_customers takes the one parameter `query`.
app_SearchWorker_search(rows, q, limit, fault) ==
    LET call == PyCall({"query"}, {"limit"}, search_customers(rows, q))
    IN  IF fault \/ call.raised
        THEN Emitted(<<"error">>, <<<<>>>>)
        ELSE Emitted(<<>>, <<sorted(call.rows, "name")>>)

\* A signal whose call goes ahead of the events already waiting.
Posted_front(queue, event) == <<event>> \o queue

\* A queued signal: the call is appended to the receiving thread's events.
Posted(queue, event) == Append(queue, event)

\* ArticlesView._format_list_item
_format_list_item(article) ==
    LET reference == IF OrEmpty(article.reference) = <<>>
                     THEN <<"(no reference)">> ELSE article.reference
    IN  IF OrEmpty(article.name) # <<>>
        THEN reference \o <<" ", "-", " ">> \o article.name
        ELSE reference

\* The display text of a customer in the Home list.
CustomerDisp(c) ==
    LET name == Strip(OrEmpty(c.name))
        address == Strip(OrEmpty(c.address))
    IN  IF address # <<>> THEN name \o <<" ", "--", " ">> \o address ELSE name

\* _customer_map after the loop over rows: the id of the last row with that
\* display text.
CustomerMap(rows, disp) ==
    rows[Max({i \in 1..Len(rows) : CustomerDisp(rows[i]) = disp})].id

\* ArticleDetailWidget.set_article; art is <<>> for None, else <<row>>.
set_article(art) ==
    IF art = <<>>
    THEN [current_id |-> {}, shown |-> <<>>, delete_enabled |-> FALSE]
    ELSE [current_id |-> {art[1].id}, shown |-> art, delete_enabled |-> TRUE]

\* CustomerDetailWidget.set_customer; cust is <<>> for None, else <<row>>.
set_customer(cust) ==
    IF cust = <<>>
    THEN [current_id |-> {}, shown |-> <<>>, delete_enabled |-> FALSE]
    ELSE [current_id |-> {cust[1].id}, shown |-> cust, delete_enabled |-> TRUE]

\* BaseDetailWidget.clear
clear == [current_id |-> {}, shown |-> <<>>, delete_enabled |-> FALSE]

\* get_customer_by_id on the store st: <<>> for None, else <<row>>.
get_customer_by_id(st, cid) == IF cid \in DOMAIN st THEN <<st[cid]>> ELSE <<>>

RowsIn(st) == {st[i] : i \in DOMAIN st}

\* What a handler leaves in the list, its current row, the detail widget and
\* the counter label.
View(l, row, d, label) == [list |-> l, current_row |-> row, detail |-> d, count_label |-> label]

\* The list items made of rows, each carrying the row itself.
ArticleItems(rows) ==
    [i \in 1..Len(rows) |-> [disp |-> _format_list_item(rows[i]), data |-> rows[i]]]

\* The Home list items made of shown, each carrying the id _customer_map
\* holds for its display text; mapped are the rows the map was built from.
CustomerItems(shown, mapped) ==
    [i \in 1..Len(shown) |->
        [disp |-> CustomerDisp(shown[i]),
         data |-> CustomerMap(mapped, CustomerDisp(shown[i]))]]

\* BaseListView.reload_items of ArticlesView.
reload_items(rows, select_first, old) ==
    LET items == get_articles(rows)
        l == ArticleItems(items)
        label == [shown |-> Min2(Len(items), max_shown), total |-> Len(items)]
    IN  IF select_first /\ Len(l) > 0
        THEN View(l, 0, set_article(<<l[1].data>>), label)
        ELSE IF Len(l) = 0
             THEN View(l, -1, clear, label)
             ELSE View(l, -1, old, label)

\* BaseListView._on_search_results without the branch for an empty list.
_on_search_results_no_else(delivered, rows, old) ==
    LET rows_limited == Take(delivered, max_shown)
        l == ArticleItems(rows_limited)
        label == [shown |-> Len(rows_limited), total |-> Len(get_articles(rows))]
    IN  IF Len(l) > 0
        THEN View(l, 0, set_article(<<l[1].data>>), label)
        ELSE View(l, -1, old, label)

\* BaseListView._on_search_results of ArticlesView.
_on_search_results(delivered, rows, old) ==
    LET rows_limited == Take(delivered, max_shown)
        l == ArticleItems(rows_limited)
        label == [shown |-> Len(rows_limited), total |-> Len(get_articles(rows))]
    IN  IF Len(l) > 0
        THEN View(l, 0, set_article(<<l[1].data>>), label)
        ELSE View(l, -1, [old EXCEPT !.delete_enabled = FALSE], label)

\* MainWindow._on_result_item_activated on the store st.
_on_result_item_activated(st, item) == set_customer(get_customer_by_id(st, item.data))

\* MainWindow._reload_customer_autocomplete on the store st.
_reload_customer_autocomplete(st, select_first, old) ==
    LET customers == sorted(get_customers(RowsIn(st)), "name")
        l == CustomerItems(Take(customers, max_shown), customers)
        label == [shown |-> Len(l), total |-> Len(customers)]
    IN  IF select_first /\ Len(l) > 0
        THEN View(l, 0, _on_result_item_activated(st, l[1]), label)
        ELSE View(l, -1, old, label)

\* MainWindow._on_search_results on the store st.
app_on_search_results(delivered, st, old) ==
    LET rows_limited == Take(delivered, max_shown)
        l == CustomerItems(rows_limited, rows_limited)
        label == [shown |-> Len(rows_limited), total |-> Len(get_customers(RowsIn(st)))]
    IN  IF Len(l) > 0
        THEN View(l, 0, _on_result_item_activated(st, l[1]), label)
        ELSE View(l, -1, old, label)

\* MainWindow._on_home_deleted after delete_customer left the store st.
_on_home_deleted(st, old) ==
    LET v == _reload_customer_autocomplete(st, FALSE, old)
    IN  IF Len(v.list) > 0
        THEN View(v.list, 0, _on_result_item_activated(st, v.list[1]), v.count_label)
        ELSE v

\* _on_search_text_changed without the stop of the timer.
TimerAfterInput_no_stop(text) == IF Strip(text) = <<>> THEN timer ELSE TRUE

\* The settling timer after _on_search_text_changed(text): stop() or start().
TimerAfterInput(text) == IF Strip(text) = <<>> THEN FALSE ELSE TRUE

\* The edit mode after BaseListView.reload_items on the store st: with no
\* item to show it calls the detail widget's clear(), which leaves edit mode.
reload_items_edit(st) ==
    IF entity = "Article" /\ DOMAIN st = {}
    THEN NoEdit
    ELSE edit

\* The all-records view of the running window on the store st.
Reloaded(st) ==
    IF entity = "Customer"
    THEN _reload_customer_autocomplete(st, TRUE, detail)
    ELSE reload_items(RowsIn(st), TRUE, detail)

SetView(v) ==
    /\ list' = v.list
    /\ current_row' = v.current_row
    /\ detail' = v.detail
    /\ count_label' = v.count_label

Init ==
    /\ edit = NoEdit
    /\ sessions = 0
    /\ entity \in {"Article", "Customer"}
    /\ tie \in {"asc", "desc"}
    /\ store \in PipeStores
    /\ ret = NoCall
    /\ search_box = <<>>
    /\ timer = FALSE
    /\ requests = <<>>
    /\ results = <<>>
    /\ errors = <<>>
    /\ pending_load = (entity = "Article")
    /\ LET v == IF entity = "Customer"
                THEN _reload_customer_autocomplete(store, TRUE, NoDetail)
                ELSE View(<<>>, -1, NoDetail, NoLabel)
       IN  /\ list = v.list
           /\ current_row = v.current_row
           /\ detail = v.detail
           /\ count_label = v.count_label
    /\ hist = IF entity = "Customer" THEN [NoHist EXCEPT !.shows = 0] ELSE NoHist

\* QTimer.singleShot(0, self.reload_items) of BaseListView.__init__ fires.
InitialLoad ==
    /\ pending_load
    /\ pending_load' = FALSE
    /\ SetView(reload_items(Rows, TRUE, detail))
    /\ hist' = [hist EXCEPT !.op = "load", !.before = Len(hist.dispatched), !.shows = 0]
    /\ edit' = reload_items_edit(store)
    /\ UNCHANGED <<sessions, entity, tie, store, ret, search_box, timer, requests, results, errors>>

\* textChanged(text): _on_search_text_changed
TextChanged(text) ==
    /\ ~pending_load
    /\ text # search_box
    /\ search_box' = text
    /\ timer' = TimerAfterInput(text)
    /\ IF Strip(text) = <<>>
       THEN /\ SetView(Reloaded(store))
            /\ hist' = [hist EXCEPT !.op = "input", !.before = Len(hist.dispatched),
                                    !.burst = 0, !.cancelled = timer, !.shows = 0]
       ELSE /\ Len(hist.dispatched) < MaxDispatch
            /\ UNCHANGED <<list, current_row, detail, count_label>>
            /\ hist' = [hist EXCEPT !.op = "input", !.before = Len(hist.dispatched),
                                    !.burst = IF timer THEN Min2(hist.burst + 1, MaxBurst) ELSE 1,
                                    !.cancelled = FALSE]
    /\ edit' = IF Strip(text) = <<>> THEN reload_items_edit(store) ELSE edit
    /\ UNCHANGED <<sessions, entity, tie, store, ret, requests, results, errors, pending_load>>

\* The settling timer expires: _perform_search / _perform_live_search
Timeout ==
    /\ timer
    /\ timer' = ~setSingleShot
    /\ LET q == Strip(search_box)
           tag == Len(hist.dispatched) + 1
       IN  IF q = <<>>
           THEN /\ SetView(Reloaded(store))
                /\ requests' = requests
                /\ hist' = [hist EXCEPT !.op = "timeout", !.before = Len(hist.dispatched),
                                        !.burst = 0, !.shows = 0]
           ELSE /\ tag <= MaxDispatch
                /\ requests' = Posted(requests, [q |-> q, limit |-> search_limit, tag |-> tag])
                /\ UNCHANGED <<list, current_row, detail, count_label>>
                /\ hist' = [hist EXCEPT
                        !.op = "timeout", !.before = Len(hist.dispatched), !.burst = 0,
                        !.fired = hist.burst,
                        !.dispatched = Append(@, (1..(tag - 1)) \ hist.delivered)]
    /\ edit' = IF Strip(search_box) = <<>> THEN reload_items_edit(store) ELSE edit
    /\ UNCHANGED <<sessions, entity, tie, store, ret, search_box, results, errors, pending_load>>

\* What the repository's search returns for q with the pipeline's cap.
CappedSearch(q) ==
    IF entity = "Customer"
    THEN Take(search_customers(Rows, q), search_limit)
    ELSE search_articles(Rows, q, {search_limit})

\* The worker thread takes the next queued call of its slot search(q, limit).
\* A queued result carries, beside its rows, the history the properties read:
\* the number of its query, whether the search raised, whether the store
\* failed, and what the repository held for the query when it ran.
WorkerSearch(fault) ==
    /\ requests # <<>>
    /\ entity = "Customer" => ~fault
    /\ LET req == Head(requests)
           emitted == IF entity = "Customer"
                      THEN app_SearchWorker_search(Rows, req.q, {req.limit}, fault)
                      ELSE SearchWorker_search(Rows, req.q, {req.limit}, fault)
           entry == [rows |-> IF emitted.results_ready = <<>> THEN <<>>
                              ELSE emitted.results_ready[1],
                     tag |-> req.tag, q |-> req.q,
                     failed |-> emitted.error # <<>>, fault |-> fault,
                     expected |-> IF fault THEN <<>> ELSE CappedSearch(req.q)]
       IN  /\ requests' = Tail(requests)
           /\ errors' = IF emitted.error = <<>> THEN errors ELSE Append(errors, req.tag)
           /\ results' = IF emitted.results_ready = <<>> THEN results
                         ELSE Posted(results, entry)
           /\ hist' = [hist EXCEPT !.op = "worker", !.before = Len(hist.dispatched)]
    /\ UNCHANGED <<edit, sessions, entity, tie, store, ret, search_box, timer, list, current_row,
                   detail, count_label, pending_load>>

\* The slot _on_search_results is called with the i-th waiting result.
DeliverAt(i) ==
    /\ i \in 1..Len(results)
    /\ LET e == results[i]
       IN  /\ results' = SubSeq(results, 1, i - 1) \o SubSeq(results, i + 1, Len(results))
           /\ SetView(IF entity = "Customer"
                      THEN app_on_search_results(e.rows, store, detail)
                      ELSE _on_search_results(e.rows, Rows, detail))
           /\ hist' = [hist EXCEPT !.op = "deliver", !.before = Len(hist.dispatched),
                                   !.delivered = @ \cup {e.tag}, !.shows = e.tag,
                                   !.failed = e.failed]
    /\ UNCHANGED <<edit, sessions, entity, tie, store, ret, search_box, timer, requests, errors,
                   pending_load>>

\* The interactive thread takes the next queued call of _on_search_results.
Deliver == DeliverAt(1)

\* The user picks another row: _on_item_activated / _on_result_item_activated
ItemActivated(i) ==
    /\ i \in 1..Len(list)
    /\ i - 1 # current_row
    /\ current_row' = i - 1
    /\ detail' = IF entity = "Customer"
                 THEN _on_result_item_activated(store, list[i])
                 ELSE set_article(<<list[i].data>>)
    /\ hist' = [hist EXCEPT !.op = "activate", !.before = Len(hist.dispatched)]
    /\ UNCHANGED <<edit, sessions, entity, tie, store, ret, search_box, timer, requests, results,
                   errors, list, count_label, pending_load>>

\* The user presses delete and answers Yes: _on_delete_clicked, then
\* ArticlesView._on_deleted / MainWindow._on_home_deleted
DeleteClicked ==
    /\ ~edit.editing
    /\ detail.delete_enabled
    /\ detail.current_id # {}
    /\ LET id == Max(detail.current_id)
           st == IF id \in DOMAIN store THEN Removed(id) ELSE store
       IN  /\ store' = st
           /\ edit' = reload_items_edit(st)
           /\ SetView(IF entity = "Customer"
                      THEN _on_home_deleted(st, detail)
                      ELSE reload_items(RowsIn(st), TRUE, detail))
    /\ hist' = [hist EXCEPT !.op = "delete", !.before = Len(hist.dispatched), !.shows = 0]
    /\ UNCHANGED <<sessions, entity, tie, ret, search_box, timer, requests, results, errors,
                   pending_load>>

Next ==
    \/ InitialLoad
    \/ \E text \in BoxTexts : TextChanged(text)
    \/ Timeout
    \/ \E fault \in BOOLEAN : WorkerSearch(fault)
    \/ Deliver
    \/ \E i \in 1..Len(list) : ItemActivated(i)
    \/ DeleteClicked

Spec == Init /\ [][Next]_vars

\* The worker thread's event loop takes the call at the head of its queue
\* (a step of WorkerSearch, the only action that shortens requests); the
\* interactive thread's event loop takes the result at the head of its queue
\* (a step of Deliver, the only action that shortens results).
WorkerTakes == requests # <<>> /\ requests' = Tail(requests)

ConsumerTakes == results # <<>> /\ results' = Tail(results)

\* The pipeline with its two event loops running: a call that waits at the
\* head of a thread's queue is eventually taken.
SpecLive ==
    /\ Init
    /\ [][Next]_vars
    /\ WF_requests(WorkerTakes)
    /\ WF_results(ConsumerTakes)

(***************************************************************************)
(* The consumer on its own: the slot _on_search_results is handed the      *)
(* waiting results by a caller that keeps no order among them.             *)
(***************************************************************************)
NextConsumer ==
    \/ InitialLoad
    \/ \E text \in BoxTexts : TextChanged(text)
    \/ Timeout
    \/ \E fault \in BOOLEAN : WorkerSearch(fault)
    \/ \E i \in 1..Len(results) : DeliverAt(i)
    \/ \E i \in 1..Len(list) : ItemActivated(i)
    \/ DeleteClicked

SpecConsumer == Init /\ [][NextConsumer]_vars

(***************************************************************************)
(* The articles view with the edit, save and cancel buttons of its detail  *)
(* widget: ui/base_widgets.py, ui/article_detail.py, ui/articles_view.py.  *)
(***************************************************************************)
\* What the user types into the name and price fields to pass
\* _validate_fields, and what _to_int makes of the stock and sold fields.
typed_name == <<"n">>
typed_price == {0}
_to_int == {0}

\* The edit button: _enter_edit_mode(True) fills the edit fields with the
\* raw values of the article on display.
EditClicked ==
    /\ entity = "Article"
    /\ ~edit.editing
    /\ detail.current_id # {}
    /\ edit' = [editing |-> TRUE, entered |-> detail.current_id,
                fields |-> detail.shown]
    /\ hist' = [hist EXCEPT !.op = "edit", !.before = Len(hist.dispatched)]
    /\ UNCHANGED <<sessions, entity, tie, store, ret, search_box, timer, requests,
                   results, errors, list, current_row, detail, count_label,
                   pending_load>>

\* The save button: ArticleDetailWidget._save_changes emits the edit fields
\* under self._current_id; ArticlesView._on_saved updates that article and
\* reloads the list; then _enter_edit_mode(False).
SaveClicked ==
    /\ entity = "Article"
    /\ edit.editing
    /\ detail.current_id # {}
    /\ LET art_id == Max(detail.current_id)
           reference == Strip(OrEmpty(edit.fields[1].reference))
           st == IF art_id \in DOMAIN store
                 THEN LET row == update(store[art_id], reference, typed_name,
                                        typed_price, _to_int, _to_int)
                      IN  commit(row, ArticleConstraints(row.reference))
                 ELSE store
       IN  /\ reference # <<>>
           /\ store' = st
           /\ SetView(reload_items(RowsIn(st), TRUE, detail))
           /\ edit' = NoEdit
    /\ hist' = [hist EXCEPT !.op = "save", !.before = Len(hist.dispatched), !.shows = 0]
    /\ UNCHANGED <<sessions, entity, tie, ret, search_box, timer, requests, results,
                   errors, pending_load>>

\* The cancel button: _enter_edit_mode(False)
CancelClicked ==
    /\ entity = "Article"
    /\ edit.editing
    /\ edit' = NoEdit
    /\ hist' = [hist EXCEPT !.op = "cancel", !.before = Len(hist.dispatched)]
    /\ UNCHANGED <<sessions, entity, tie, store, ret, search_box, timer, requests,
                   results, errors, list, current_row, detail, count_label,
                   pending_load>>

\* The texts the search box takes in these runs.
EditBoxTexts == {<<>>, <<"a">>}

\* The user leaves the list alone while the edit fields are open, and the
\* store does not fail.
NextEdit ==
    \/ InitialLoad
    \/ \E text \in EditBoxTexts : TextChanged(text)
    \/ Timeout
    \/ WorkerSearch(FALSE)
    \/ Deliver
    \/ ~edit.editing /\ \E i \in 1..Len(list) : ItemActivated(i)
    \/ DeleteClicked
    \/ EditClicked
    \/ SaveClicked
    \/ CancelClicked

SpecEdit == Init /\ [][NextEdit]_vars

(***************************************************************************)
(* The articles view on a store that holds as many rows as the list shows, *)
(* and one more.                                                           *)
(***************************************************************************)
\* Articles created earlier, their references alternating.
ManyRow(i) == ProductRow(i, IF i % 2 = 0 THEN <<"a">> ELSE <<"B">>, NULL, {}, {}, {})

ManyStores == {[i \in 1..n |-> ManyRow(i)] : n \in {max_shown, max_shown + 1}}

InitMany ==
    /\ edit = NoEdit
    /\ sessions = 0
    /\ entity = "Article"
    /\ tie \in {"asc", "desc"}
    /\ store \in ManyStores
    /\ ret = NoCall
    /\ search_box = <<>>
    /\ timer = FALSE
    /\ requests = <<>>
    /\ results = <<>>
    /\ errors = <<>>
    /\ pending_load = TRUE
    /\ list = <<>>
    /\ current_row = -1
    /\ detail = NoDetail
    /\ count_label = NoLabel
    /\ hist = NoHist

\* The user types and clears; the store does not fail.
NextMany ==
    \/ InitialLoad
    \/ \E text \in EditBoxTexts : TextChanged(text)
    \/ Timeout
    \/ WorkerSearch(FALSE)
    \/ Deliver

SpecMany == InitMany /\ [][NextMany]_vars

(***************************************************************************)
(* Properties of the repositories, checked under SpecRepo.                 *)
(***************************************************************************)
RowsOf(rows) == {rows[i] : i \in 1..Len(rows)}

\* The canonical sort key and the searchable text columns of the entity.
CanonicalKey(r) == IF entity = "Customer" THEN r.name ELSE r.reference

SearchableFields ==
    IF entity = "Customer" THEN {"name", "email", "address"} ELSE {"reference", "name"}

\* t occurs in s as a run of consecutive characters.
Contains(s, t) ==
    \E i \in 0..(Len(s) - Len(t)) : SubSeq(s, i + 1, i + Len(t)) = t

\* q is a literal, case-insensitive substring of one searchable column of r.
TextMatch(r, q) ==
    \E f \in SearchableFields : r[f] # NULL /\ Contains(Lower(r[f]), Lower(q))

\* q parses as an integer that is r's id.
IdMatch(r, q) == ParsesAsInt(q) /\ r.id = IntOf(q, 0)

\* C7: get_all() returns every stored row exactly once, in ascending order of
\* the lower-cased canonical sort key; on an empty store it returns <<>>.
C7_GetAllSortedComplete ==
    ret.op = "get_all" =>
        /\ ~ret.raised
        /\ Len(ret.rows) = Cardinality(DOMAIN store)
        /\ RowsOf(ret.rows) = Rows
        /\ \A i, j \in 1..Len(ret.rows) :
              i < j => ~StrLess(Lower(CanonicalKey(ret.rows[j])),
                                Lower(CanonicalKey(ret.rows[i])))

\* get_all returned two rows in an order that their raw keys alone would reverse.
C7_Witness ==
    /\ ret.op = "get_all"
    /\ Len(ret.rows) = 2
    /\ StrLess(CanonicalKey(ret.rows[2]), CanonicalKey(ret.rows[1]))
    /\ StrLess(Lower(CanonicalKey(ret.rows[1])), Lower(CanonicalKey(ret.rows[2])))

\* C8: search(q) without a limit, q empty, None or whitespace-only, returns
\* exactly the sequence get_all() returns.
C8_EmptySearchIsGetAll ==
    (ret.op = "search" /\ ret.limit = {} /\ Strip(OrEmpty(ret.query)) = <<>>)
        => ret.rows = RepoGetAll

\* A whitespace-only query returned two rows.
C8_Witness ==
    /\ ret.op = "search"
    /\ ret.limit = {}
    /\ ret.query = <<" ", " ">>
    /\ Len(ret.rows) = 2

\* C9: search(q) without a limit, q non-empty once trimmed, includes every row
\* with a searchable column containing q case-insensitively, and the row whose
\* id is int(q) when q parses as an integer.
C9_SearchComplete ==
    (ret.op = "search" /\ ret.limit = {} /\ Strip(OrEmpty(ret.query)) # <<>>)
        => \A r \in Rows :
              (TextMatch(r, Strip(ret.query)) \/ IdMatch(r, Strip(ret.query)))
                  => r \in RowsOf(ret.rows)

\* One search returned a row for its id alone and another for its text alone.
C9_Witness ==
    /\ ret.op = "search"
    /\ ret.limit = {}
    /\ \E r \in RowsOf(ret.rows) :
          IdMatch(r, Strip(ret.query)) /\ ~TextMatch(r, Strip(ret.query))
    /\ \E r \in RowsOf(ret.rows) :
          ~IdMatch(r, Strip(ret.query)) /\ TextMatch(r, Strip(ret.query))

\* C10: search(q), q non-empty once trimmed, returns only rows that contain q as
\* a literal case-insensitive substring of a searchable column, or whose id is
\* int(q), whatever characters q is made of.
C10_SearchSound ==
    (ret.op = "search" /\ Strip(OrEmpty(ret.query)) # <<>>)
        => \A r \in RowsOf(ret.rows) :
              TextMatch(r, Strip(ret.query)) \/ IdMatch(r, Strip(ret.query))

(***************************************************************************)
(* Properties of the search pipelines.                                     *)
(***************************************************************************)
ErrorTags == {errors[i] : i \in 1..Len(errors)}

ResultTags == {results[i].tag : i \in 1..Len(results)}

EmptyBox == Strip(search_box) = <<>>

\* The list shows exactly the all-records view of the store, in its order.
ShowsAllRecords ==
    LET all == Take(RepoGetAll, max_shown)
    IN  /\ Len(list) = Len(all)
        /\ \A i \in 1..Len(all) :
              IF entity = "Customer"
              THEN list[i].disp = CustomerDisp(all[i])
              ELSE list[i].data = all[i]

\* C1: a query is dispatched only by an expiry of the settling timer, never
\* by an input event; an expiry ends a burst of at least one non-empty input,
\* dispatches exactly one query, carrying the trimmed text of the last event
\* with limit 50, and leaves the single-shot timer idle; every non-empty
\* input (re)starts the timer, so a later input leads to a further dispatch.
C1_Debounce ==
    /\ Len(hist.dispatched) # hist.before => hist.op = "timeout"
    /\ hist.op = "input" /\ ~EmptyBox => timer
    /\ timer => ~EmptyBox
    /\ hist.op = "timeout" =>
          /\ ~timer
          /\ hist.fired >= 1
          /\ Len(hist.dispatched) = hist.before + 1
          /\ requests # <<>>
          /\ requests[Len(requests)] =
                [q |-> Strip(search_box), limit |-> 50, tag |-> Len(hist.dispatched)]

\* A second dispatch, made after a burst of three inputs, of a text that
\* trimming changed.
C1_Witness ==
    /\ hist.op = "timeout"
    /\ hist.fired = 3
    /\ Len(hist.dispatched) = 2
    /\ search_box = <<"B", " ">>
    /\ requests[Len(requests)].q = <<"B">>

\* C2: when query B was dispatched before the result of an earlier query A
\* was delivered, then once both results have been delivered the list does
\* not show A's result, whichever of the two was delivered first.
C2_MostRecentResult ==
    hist.op = "deliver" =>
        \A a, b \in hist.delivered :
            (a < b /\ a \in hist.dispatched[b]) => hist.shows # a

\* C3: an input whose text is empty or only whitespace stops the settling
\* timer, dispatches nothing and in the same step shows all records; with an
\* empty box the timer never runs, so the query that was pending is never
\* dispatched.
C3_EmptyInputShortCircuit ==
    /\ EmptyBox => ~timer
    /\ hist.op = "input" /\ EmptyBox =>
          /\ Len(hist.dispatched) = hist.before
          /\ hist.shows = 0
          /\ ShowsAllRecords

\* A whitespace-only input that arrived while the timer was running.
C3_Witness ==
    /\ hist.op = "input"
    /\ hist.cancelled
    /\ search_box = <<" ">>
    /\ ~timer
    /\ Len(list) = 2
    /\ requests = <<>>

\* C4: a search that raises in the worker puts its message on the error
\* channel and still hands an empty result to the consumer, which empties
\* the list; no query the worker took is left without a result.
C4_ErrorDelivery ==
    /\ \A i \in 1..Len(results) :
          /\ results[i].fault => results[i].failed
          /\ results[i].failed => results[i].rows = <<>> /\ results[i].tag \in ErrorTags
    /\ ErrorTags \subseteq ResultTags \cup hist.delivered
    /\ Len(requests) + Len(results) + Cardinality(hist.delivered) = Len(hist.dispatched)
    /\ hist.op = "deliver" /\ hist.failed => list = <<>>

\* The empty result of a failed article search has emptied a list.
C4_Witness ==
    /\ entity = "Article"
    /\ hist.op = "deliver"
    /\ hist.failed
    /\ errors # <<>>
    /\ store # <<>>
    /\ list = <<>>

\* C5: the result handed to the consumer for a query is what the repository
\* search returns for it with cap 50 on the store at execution time, unless
\* the store failed.
C5_ResultContent ==
    \A i \in 1..Len(results) :
        ~results[i].fault => results[i].rows = results[i].expected

\* C6: in a list view, after a result delivery and after a reload the first
\* row of a non-empty list is current and shown in the detail widget, and
\* with an empty list the delete button is disabled.
C6_AutoSelection ==
    entity = "Article" =>
        /\ ~pending_load /\ list = <<>> => ~detail.delete_enabled
        /\ (hist.op \in {"deliver", "load", "delete"} \/ (hist.op = "input" /\ EmptyBox)) =>
              IF list # <<>>
              THEN /\ current_row = 0
                   /\ detail.shown = <<list[1].data>>
                   /\ detail.current_id = {list[1].data.id}
              ELSE ~detail.delete_enabled

\* A search without matches was delivered while the detail widget showed an
\* article.
C6_Witness ==
    /\ entity = "Article"
    /\ hist.op = "deliver"
    /\ ~hist.failed
    /\ list = <<>>
    /\ detail.shown # <<>>
    /\ ~detail.delete_enabled

(***************************************************************************)
(* Further properties of the repositories, under SpecRepo.                 *)
(***************************************************************************)
\* C11: search(q, limit=k) with an integer k >= 0 returns the first
\* min(k, n) elements of the n elements search(q) returns without a limit.
C11_LimitTruncates ==
    (ret.op = "search" /\ ret.limit # {}) =>
        LET k == Max(ret.limit)
            unlimited == RepoSearch(ret.query, {})
        IN  /\ Len(ret.rows) <= k
            /\ ret.rows = Take(unlimited, Min2(k, Len(unlimited)))

TrimmedLen(s) == IF s = NULL THEN 0 ELSE Len(Strip(s))

\* C13: creating a customer fails exactly when the name or the address has
\* fewer than 3 characters once trimmed, and succeeds otherwise.
C13_CustomerCreateThreshold ==
    (entity = "Customer" /\ ret.op = "create") =>
        (ret.raised <=> (TrimmedLen(ret.args.name) < 3 \/ TrimmedLen(ret.args.address) < 3))

\* C14: a create or update that raises leaves the store as the call found
\* it: no row added, no field of any row changed.
C14_AtomicFailure ==
    (ret.op \in {"create", "update"} /\ ret.raised) => store = ret.before

\* An update of a stored customer failed on its too-short name while it also
\* supplied a valid address other than the stored one.
C14_Witness ==
    /\ entity = "Customer"
    /\ ret.op = "update"
    /\ ret.raised
    /\ ret.args.id \in DOMAIN store
    /\ ret.args.name = <<"a", "b">>
    /\ Truthy(ret.args.address)
    /\ Len(ret.args.address) >= 3
    /\ ret.args.address # store[ret.args.id].address

\* The fields of the entity's rows other than id, and the value of a
\* parameter that was not supplied.
FieldsOf(e) ==
    IF e = "Customer" THEN {"name", "address", "email"}
    ELSE {"reference", "name", "price", "stock", "sold"}

NotSupplied(f) == IF f \in {"price", "stock", "sold"} THEN {} ELSE NULL

\* C15: an update of an existing row keeps the row's id and every field that
\* was not supplied, and keeps every other row of the store.
C15_UpdateFrame ==
    (ret.op = "update" /\ ret.args.id \in DOMAIN ret.before) =>
        /\ DOMAIN store = DOMAIN ret.before
        /\ store[ret.args.id].id = ret.args.id
        /\ \A f \in FieldsOf(entity) :
              ret.args[f] = NotSupplied(f) =>
                  store[ret.args.id][f] = ret.before[ret.args.id][f]
        /\ \A other \in DOMAIN store \ {ret.args.id} :
              store[other] = ret.before[other]

\* update(id, stock=0) on a product priced 5, next to another product, has
\* changed the stock.
C15_Witness ==
    /\ entity = "Product"
    /\ ret.op = "update"
    /\ ret.rows # <<>>
    /\ ret.args.reference = NULL
    /\ ret.args.price = {}
    /\ ret.args.stock = {0}
    /\ ret.before[ret.args.id].stock # {0}
    /\ ret.before[ret.args.id].price = {5}
    /\ store[ret.args.id].stock = {0}
    /\ Cardinality(DOMAIN store) = 2

\* The values the entity's table accepts in a field.
Allows(e, f, v) ==
    CASE e = "Customer" /\ f \in {"name", "address"} -> v # NULL /\ Len(v) >= 3
      [] e # "Customer" /\ f = "reference" -> v # NULL
      [] OTHER -> TRUE

\* C16: when an update of an existing row returns the updated entity, every
\* field the caller supplied with a value the entity allows is stored with
\* that value, the empty email and the zero price and stock included.
C16_UpdateApplies ==
    (ret.op = "update" /\ ret.rows # <<>>) =>
        \A f \in FieldsOf(entity) :
            (ret.args[f] # NotSupplied(f) /\ Allows(entity, f, ret.args[f])) =>
                store[ret.args.id][f] = ret.args[f]

\* C17: an update of an existing customer that supplies a name or an address
\* which create rejects, empty or shorter than 3 characters, raises as create
\* does.
C17_UpdateValidates ==
    (/\ entity = "Customer"
     /\ ret.op = "update"
     /\ ret.args.id \in DOMAIN ret.before
     /\ \E f \in {"name", "address"} :
           ret.args[f] # NULL /\ ~Allows("Customer", f, ret.args[f]))
    => ret.raised

\* C18: get_by_id, update and delete called with an id the store does not
\* hold return None, raise nothing and leave the store as it was.
C18_NotFound ==
    (/\ ret.op \in {"get_by_id", "update", "delete"}
     /\ ret.args.id \notin DOMAIN ret.before)
    => /\ ret.rows = <<>>
       /\ ~ret.raised
       /\ store = ret.before

\* An update with a valid new name addressed the id of a deleted row while
\* another row is stored.
C18_Witness ==
    /\ entity = "Customer"
    /\ ret.op = "update"
    /\ ret.args.id = 1
    /\ DOMAIN store = {2}
    /\ ret.args.name = <<"B", "a", "b">>

\* The ids of the rows a call returned.
IdsOf(rows) == {rows[i].id : i \in 1..Len(rows)}

\* C19: a delete of an existing id returns the row as it was stored before
\* the call and removes that row and no other; right after it get_by_id of
\* the id finds nothing and neither get_all nor any search returns the row.
C19_Delete ==
    (ret.op = "delete" /\ ret.args.id \in DOMAIN ret.before) =>
        LET id == ret.args.id
        IN  /\ ret.rows = <<ret.before[id]>>
            /\ ~ret.raised
            /\ store = [i \in DOMAIN ret.before \ {id} |-> ret.before[i]]
            /\ get_by_id(id) = <<>>
            /\ id \notin IdsOf(RepoGetAll)
            /\ \A query \in Queries, limit \in Limits :
                  id \notin IdsOf(RepoSearch(query, limit))

\* The first of two rows was deleted and the second is still listed.
C19_Witness ==
    /\ ret.op = "delete"
    /\ ret.args.id = 1
    /\ DOMAIN ret.before = {1, 2}
    /\ ret.rows # <<>>
    /\ IdsOf(RepoGetAll) = {2}

\* C20: a create that succeeds adds exactly one row and changes no other; the
\* entity it returns has an id no stored row had, so that ids stay pairwise
\* distinct, and the supplied field values; get_by_id of that id and get_all
\* then yield the entity.
C20_CreateRoundTrip ==
    /\ \A i \in DOMAIN store : store[i].id = i
    /\ (ret.op = "create" /\ ~ret.raised) =>
          /\ Len(ret.rows) = 1
          /\ LET created == ret.rows[1]
             IN  /\ created.id \in Nat
                 /\ created.id \notin DOMAIN ret.before
                 /\ DOMAIN store = DOMAIN ret.before \cup {created.id}
                 /\ \A i \in DOMAIN ret.before : store[i] = ret.before[i]
                 /\ \A f \in FieldsOf(entity) : created[f] = ret.args[f]
                 /\ get_by_id(created.id) = <<created>>
                 /\ created \in RowsOf(RepoGetAll)

\* A second row was created next to a stored one.
C20_Witness ==
    /\ ret.op = "create"
    /\ ~ret.raised
    /\ DOMAIN ret.before = {1}
    /\ DOMAIN store = {1, 2}
    /\ ret.rows[1].id = 2

(***************************************************************************)
(* Form validation: validate_customer_fields of ui/customers_view.py and   *)
(* ui/customer_detail.py (the same text in both), called one at a time.    *)
(***************************************************************************)
\* What the form hands over as name and address: None or a short text.
FormTexts == {NULL} \cup SeqsUpTo({" ", "a"}, MaxFieldLen)

\* The four messages, word by word.
NameRequired == <<"Name", "is", "required">>
NameTooShort == <<"Name", "must", "be", "at", "least", "3", "characters">>
AddressRequired == <<"Address", "is", "required">>
AddressTooShort == <<"Address", "must", "be", "at", "least", "3", "characters">>

\* The validation without its two strip() calls.
validate_customer_fields_unstripped(name, address) ==
    LET n == OrEmpty(name)
        a == OrEmpty(address)
    IN  IF n = <<>> THEN [valid |-> FALSE, msg |-> NameRequired]
        ELSE IF Len(n) < 3 THEN [valid |-> FALSE, msg |-> NameTooShort]
        ELSE IF a = <<>> THEN [valid |-> FALSE, msg |-> AddressRequired]
        ELSE IF Len(a) < 3 THEN [valid |-> FALSE, msg |-> AddressTooShort]
        ELSE [valid |-> TRUE, msg |-> NULL]

validate_customer_fields(name, address) ==
    LET n == Strip(OrEmpty(name))
        a == Strip(OrEmpty(address))
    IN  IF n = <<>> THEN [valid |-> FALSE, msg |-> NameRequired]
        ELSE IF Len(n) < 3 THEN [valid |-> FALSE, msg |-> NameTooShort]
        ELSE IF a = <<>> THEN [valid |-> FALSE, msg |-> AddressRequired]
        ELSE IF Len(a) < 3 THEN [valid |-> FALSE, msg |-> AddressTooShort]
        ELSE [valid |-> TRUE, msg |-> NULL]

Validate(name, address) ==
    /\ ret.op = "none"
    /\ ret' = Wrote("validate", [name |-> name, address |-> address],
                    <<validate_customer_fields(name, address)>>, FALSE)
    /\ UNCHANGED <<edit, sessions, entity, tie, store>>
    /\ UIUntouched

NextValidate ==
    \/ \E name \in FormTexts, address \in FormTexts : Validate(name, address)
    \/ Forget

SpecValidate == InitRepo /\ [][NextValidate]_vars

(***************************************************************************)
(* Properties of the form validation, under SpecValidate.                  *)
(***************************************************************************)
\* What a message says.
AboutField(msg, field) == msg # NULL /\ msg[1] = field

SaysRequired(msg) == msg # NULL /\ \E i \in 1..Len(msg) : msg[i] = "required"

SaysAtLeast3(msg) ==
    /\ msg # NULL
    /\ \E i \in 1..(Len(msg) - 2) : SubSeq(msg, i, i + 2) = <<"at", "least", "3">>

\* The message a field of this trimmed length calls for.
SaysFor(msg, field, len) ==
    /\ AboutField(msg, field)
    /\ len = 0 => SaysRequired(msg)
    /\ len \in {1, 2} => SaysAtLeast3(msg)

\* C21: the validation returns (True, None) exactly when the trimmed name and
\* the trimmed address both have at least 3 characters; otherwise (False,
\* message), the message being about the name whenever the name is invalid
\* and else about the address, "required" for an empty trimmed value and
\* "at least 3" for one of 1 or 2 characters.
C21_ValidateCustomerFields ==
    ret.op = "validate" =>
        LET n == TrimmedLen(ret.args.name)
            a == TrimmedLen(ret.args.address)
            out == ret.rows[1]
        IN  /\ out.valid <=> (n >= 3 /\ a >= 3)
            /\ out.valid => out.msg = NULL
            /\ (~out.valid /\ n < 3) => SaysFor(out.msg, "Name", n)
            /\ (~out.valid /\ n >= 3) => SaysFor(out.msg, "Address", a)

\* A name of three characters that trims to one was refused as too short.
C21_Witness ==
    /\ ret.op = "validate"
    /\ ret.args.name = <<" ", "a", " ">>
    /\ ~ret.rows[1].valid
    /\ SaysAtLeast3(ret.rows[1].msg)

(***************************************************************************)
(* Further properties of the search pipelines, under Spec.                 *)
(***************************************************************************)
\* The numbers of the queries in a queue of calls, in queue order.
Tags(queue) == [i \in 1..Len(queue) |-> queue[i].tag]

\* The queries not yet delivered: those the worker has run, then those it
\* has still to run.
Waiting == Tags(results) \o Tags(requests)

\* C22: the worker runs the queries in dispatch order and their results reach
\* the consumer in dispatch order: what has been delivered is an initial part
\* of what was dispatched, and the queries still on their way are lined up
\* in dispatch order behind it, the executed ones first.
C22_SingleLaneFifo ==
    /\ \A a \in hist.delivered : 1..a \subseteq hist.delivered
    /\ \A i, j \in 1..Len(Waiting) : i < j => Waiting[i] < Waiting[j]
    /\ \A a \in hist.delivered, i \in 1..Len(Waiting) : a < Waiting[i]

\* The second query was dispatched while the first was still on its way, and
\* its result has just been delivered, after the first.
C22_Witness ==
    /\ hist.op = "deliver"
    /\ hist.shows = 2
    /\ Len(hist.dispatched) = 2
    /\ hist.dispatched[2] = {1}
    /\ hist.delivered = {1, 2}

\* The numbers in a sequence of numbers.
Range(f) == {f[i] : i \in 1..Len(f)}

\* C23: every dispatched query is eventually delivered to the consumer, and
\* at every moment each dispatched query is either delivered or waiting
\* exactly once; a result that waits after a failed search is empty.
C23_DeliveryLiveness ==
    /\ \A tag \in 1..MaxDispatch :
          (Len(hist.dispatched) >= tag) ~> (tag \in hist.delivered)
    /\ [](/\ Range(Waiting) \cup hist.delivered = 1..Len(hist.dispatched)
          /\ Range(Waiting) \cap hist.delivered = {}
          /\ Cardinality(Range(Waiting)) = Len(Waiting)
          /\ \A i \in 1..Len(results) : results[i].failed => results[i].rows = <<>>)

\* Every query of the run has been dispatched and delivered, the last one
\* after a failed search, and nothing is waiting or timed.
C23_Witness ==
    /\ Len(hist.dispatched) = MaxDispatch
    /\ hist.delivered = 1..MaxDispatch
    /\ hist.op = "deliver"
    /\ hist.failed
    /\ Waiting = <<>>
    /\ ~timer

\* Every character of s is a space.
OnlySpaces(s) == \A i \in 1..Len(s) : s[i] = " "

\* q is text without the spaces at its two ends.
IsTrimOf(q, text) ==
    /\ q # <<>>
    /\ q[1] # " "
    /\ q[Len(q)] # " "
    /\ \E i \in 0..(Len(text) - Len(q)) :
          /\ SubSeq(text, i + 1, i + Len(q)) = q
          /\ OnlySpaces(SubSeq(text, 1, i))
          /\ OnlySpaces(SubSeq(text, i + Len(q) + 1, Len(text)))

C25_ScopedSessions == sessions = 0

(***************************************************************************)
(* The company record: models/company.py and models/crud_company.py,       *)
(* called one at a time on a table that starts empty.                      *)
(***************************************************************************)
\* What the callers pass; a logo is a byte string.
CompanyNames == {NULL, <<"A">>, <<"B">>}
CompanyAddresses == {NULL, <<"x">>}
CompanyEmails == {NULL, <<"e">>}
CompanyPhones == {NULL, <<"p">>}
CompanyLogos == {NULL, <<"l">>, <<"m">>}

CompanyRow(id, name, address, email, phone, logo) ==
    [id |-> id, name |-> name, address |-> address, email |-> email,
     phone |-> phone, logo |-> logo]

\* A lookup that finds no row.
first_none == <<>>

\* session.query(Company).first(): the row with the smallest rowid, or None.
first ==
    IF DOMAIN store = {} THEN <<>>
    ELSE <<store[CHOOSE i \in DOMAIN store : \A j \in DOMAIN store : i <= j]>>

\* crud_company.get_company
get_company == first

\* The row create_or_update_company leaves in its session before the commit.
create_or_update_company(name, address, email, phone, logo) ==
    LET company == first
    IN  IF company # <<>>
        THEN [company[1] EXCEPT !.name = name, !.address = address,
                                !.email = email, !.phone = phone,
                                !.logo = IF logo # NULL THEN logo ELSE @]
        ELSE CompanyRow(NextId, name, address, email, phone, logo)

InitCompany ==
    /\ edit = NoEdit
    /\ sessions = 0
    /\ entity = "Company"
    /\ tie = "asc"
    /\ store = <<>>
    /\ ret = NoCall
    /\ search_box = <<>>
    /\ timer = FALSE
    /\ requests = <<>>
    /\ results = <<>>
    /\ errors = <<>>
    /\ list = <<>>
    /\ current_row = -1
    /\ detail = NoDetail
    /\ count_label = NoLabel
    /\ pending_load = FALSE
    /\ hist = NoHist

\* create_or_update_company: the commit fails on name NOT NULL.
CreateOrUpdateCompany(name, address, email, phone, logo) ==
    /\ entity = "Company"
    /\ ret.op = "none"
    /\ LET args == CompanyRow({}, name, address, email, phone, logo)
           row == create_or_update_company(name, address, email, phone, logo)
           ok == row.name # NULL
       IN  /\ row.id <= MaxRows
           /\ store' = IF ok THEN Inserted(row) ELSE store
           /\ ret' = Wrote("create_or_update_company", args,
                           IF ok THEN <<row>> ELSE <<>>, ~ok)
    /\ UNCHANGED <<edit, sessions, entity, tie>>
    /\ UIUntouched

\* get_company
GetCompany ==
    /\ entity = "Company"
    /\ ret.op = "none"
    /\ ret' = Wrote("get_company", <<>>, get_company, FALSE)
    /\ UNCHANGED <<edit, sessions, entity, tie, store>>
    /\ UIUntouched

NextCompany ==
    \/ \E name \in CompanyNames, address \in CompanyAddresses,
          email \in CompanyEmails, phone \in CompanyPhones, logo \in CompanyLogos :
          CreateOrUpdateCompany(name, address, email, phone, logo)
    \/ GetCompany
    \/ Forget

SpecCompany == InitCompany /\ [][NextCompany]_vars

(***************************************************************************)
(* Properties of the company record, under SpecCompany.                    *)
(***************************************************************************)
\* C26: the company table never holds more than one row; after a call of
\* create_or_update_company that returned it holds exactly one, which the
\* call returned and get_company returns, and whose id is the id of the row
\* the call found, if it found one.
C26_CompanySingleton ==
    /\ Cardinality(DOMAIN store) <= 1
    /\ (ret.op = "create_or_update_company" /\ ~ret.raised) =>
          /\ Cardinality(DOMAIN store) = 1
          /\ get_company = ret.rows
          /\ \A i \in DOMAIN store : store[i].id = i /\ ret.rows = <<store[i]>>
          /\ DOMAIN ret.before # {} => DOMAIN store = DOMAIN ret.before
    /\ ret.op = "get_company" =>
          ret.rows = IF DOMAIN store = {} THEN <<>>
                     ELSE <<store[CHOOSE i \in DOMAIN store : TRUE]>>

\* A second call has renamed the company the first call created.
C26_Witness ==
    /\ ret.op = "create_or_update_company"
    /\ ~ret.raised
    /\ DOMAIN ret.before = {1}
    /\ ret.before[1].name = <<"A">>
    /\ DOMAIN store = {1}
    /\ store[1].name = <<"B">>

\* The five fields a caller of create_or_update_company passes.
CompanyFields == {"name", "address", "email", "phone", "logo"}

\* C27: after create_or_update_company returns, get_company has the values
\* of that call in all five fields, None included: a call with logo None
\* leaves the company without a logo.
C27_CompanyLastWriteWins ==
    (ret.op = "create_or_update_company" /\ ~ret.raised) =>
        /\ get_company # <<>>
        /\ \A f \in CompanyFields : get_company[1][f] = ret.args[f]

(***************************************************************************)
(* Properties of the search pipelines at rest, under Spec.                 *)
(***************************************************************************)
\* The list shows exactly these rows, in this order.
ShowsRows(rows) ==
    /\ Len(list) = Len(rows)
    /\ \A i \in 1..Len(rows) :
          IF entity = "Customer"
          THEN list[i].disp = CustomerDisp(rows[i])
          ELSE list[i].data = rows[i]

\* No timer is running and no dispatched query awaits its delivery.
Quiescent == ~pending_load /\ ~timer /\ requests = <<>> /\ results = <<>>

\* C28: at quiescence the list corresponds to the text of the search box: all
\* records when the text is empty or blank, else the result of the query for
\* the trimmed text.
C28_ListMatchesBox ==
    Quiescent =>
        IF OnlySpaces(search_box)
        THEN ShowsAllRecords
        ELSE ShowsRows(Take(CappedSearch(Strip(search_box)), max_shown))

(***************************************************************************)
(* Properties of the edit mode, under SpecEdit.                            *)
(***************************************************************************)
\* C29: a save is made under the id of the article that was on display when
\* edit mode was entered, whatever was delivered or reloaded in between.
C29_EditTargetStable ==
    [][(edit.editing /\ hist'.op = "save" /\ hist' # hist)
          => detail.current_id = edit.entered]_vars

\* C30: once a result delivery or a reload of all records has written the
\* counter label, the list holds at most max_shown items, the label's shown
\* number is the number of items in the list and its total number is the
\* number of rows in the store.
C30_DisplayCap ==
    count_label # NoLabel =>
        /\ Len(list) <= max_shown
        /\ count_label.shown = Len(list)
        /\ count_label.total = Cardinality(DOMAIN store)

====
